---- MODULE Spec2Model ----
(***************************************************************************)
(* A model of list_refresher.py: SpotifyPlaylistRefresher.                 *)
(*                                                                         *)
(* The program resolves a playlist reference to an identifier, fetches the *)
(* playlist's metadata, enumerates its tracks page by page, removes every  *)
(* enumerated URI in batches of 100 and appends them again in batches of   *)
(* 100.  The remote playlist is the only state that outlives a run.        *)
(*                                                                         *)
(* Strings are sequences of one-character strings, so that re.search is    *)
(* modelled by what it does to the characters.                             *)
(***************************************************************************)
EXTENDS Integers, Sequences, FiniteSets, Bags

\* ------------------------------------------------------------------------
\* Bounds of the model
\* ------------------------------------------------------------------------

\* longest reference string, counted in pieces of RefPieces
MaxPieces == 4

\* the short playlists are all sequences of at most MaxSeed entry kinds
MaxSeed == 3

\* the long playlists repeat a sequence of at most MaxCycle entry kinds
MaxCycle == 2

\* the longest playlists fill MaxBatches batches and overflow into one more
MaxBatches == 2

\* most pages a playlist is served in
MaxPages == 3

\* most runs of refresh_playlist made one after the other on one playlist
MaxRuns == 2

\* most entries another actor appends to the playlist during a run
MaxEdits == 2

\* ------------------------------------------------------------------------
\* Program constants
\* ------------------------------------------------------------------------

\* "Spotify API has a limit of 100 tracks per request": range(0, n, 100)
BatchSize == 100

\* Python's None
None == <<>>

Min(S) == CHOOSE x \in S : \A y \in S : x <= y
Max(S) == CHOOSE x \in S : \A y \in S : x >= y
Range(s) == {s[k] : k \in 1..Len(s)}

\* ------------------------------------------------------------------------
\* extract_playlist_id
\* ------------------------------------------------------------------------

Lower == {"a","b","c","d","e","f","g","h","i","j","k","l","m",
          "n","o","p","q","r","s","t","u","v","w","x","y","z"}
Upper == {"A","B","C","D","E","F","G","H","I","J","K","L","M",
          "N","O","P","Q","R","S","T","U","V","W","X","Y","Z"}
Digit == {"0","1","2","3","4","5","6","7","8","9"}

\* a mutant of AlphaNum: the character class [a-z0-9]
AlphaNumLowerOnly == Lower \cup Digit

\* the character class [a-zA-Z0-9]
AlphaNum == Lower \cup Upper \cup Digit

\* the literal part of r'spotify:playlist:([a-zA-Z0-9]+)'
LitUri == <<"s","p","o","t","i","f","y",":","p","l","a","y","l","i","s","t",":">>

\* the literal part of r'spotify\.com/playlist/([a-zA-Z0-9]+)'
LitWeb == <<"s","p","o","t","i","f","y",".","c","o","m","/",
            "p","l","a","y","l","i","s","t","/">>

\* the literal part of r'open\.spotify\.com/playlist/([a-zA-Z0-9]+)'
LitOpen == <<"o","p","e","n",".">> \o LitWeb

\* the list of patterns, in the order the code tries them
patterns == <<LitUri, LitOpen, LitWeb>>

\* the group ([a-zA-Z0-9]+) matched greedily from position j of s: the
\* longest run of class characters that starts there
GroupAt(s, j) ==
    LET ends == {k \in (j - 1)..Len(s) : \A m \in j..k : s[m] \in AlphaNum}
    IN  SubSeq(s, j, Max(ends))

\* a mutant of MatchesAt: the group may be empty, ([a-zA-Z0-9]*)
MatchesAtStar(lit, s, p) ==
    /\ p + Len(lit) - 1 <= Len(s)
    /\ SubSeq(s, p, p + Len(lit) - 1) = lit

\* the pattern lit([a-zA-Z0-9]+) matches s starting at position p: the
\* literal is there and at least one class character follows it
MatchesAt(lit, s, p) ==
    /\ p + Len(lit) <= Len(s)
    /\ SubSeq(s, p, p + Len(lit) - 1) = lit
    /\ s[p + Len(lit)] \in AlphaNum

NoMatch == [matched |-> FALSE, group |-> <<>>]

\* re.search(pattern, s) and match.group(1): the group of the leftmost
\* match, or no match when the pattern matches nowhere
ReSearch(lit, s) ==
    LET starts == {p \in 1..Len(s) : MatchesAt(lit, s, p)}
    IN  IF starts = {} THEN NoMatch
        ELSE [matched |-> TRUE, group |-> GroupAt(s, Min(starts) + Len(lit))]

\* the loop "for pattern in pats": the first pattern that matches wins;
\* ValueError (ok = FALSE) when none does
ExtractWith(pats, s) ==
    LET hits == {k \in 1..Len(pats) : ReSearch(pats[k], s).matched}
    IN  IF hits = {} THEN [ok |-> FALSE, id |-> None]
        ELSE [ok |-> TRUE, id |-> ReSearch(pats[Min(hits)], s).group]

extract_playlist_id(url) == ExtractWith(patterns, url)

\* ------------------------------------------------------------------------
\* Reference strings the model resolves
\* ------------------------------------------------------------------------

Https == <<"h","t","t","p","s",":","/","/">>
ExampleId == <<"3","7","i","9","d","Q","Z","F","1">>
NotAPlaylist == <<"n","o","t","-","a","-","p","l","a","y","l","i","s","t">>

RefPieces == {LitUri, LitOpen, LitWeb, Https, ExampleId,
              <<"a">>, <<"?">>, <<"_">>}

RECURSIVE Concat(_)
Concat(ps) == IF ps = <<>> THEN <<>> ELSE Head(ps) \o Concat(Tail(ps))

\* every concatenation of at most MaxPieces pieces, and the spec's example
\* of a string that is no reference
RefInputs ==
    {NotAPlaylist}
    \cup UNION {{Concat(ps) : ps \in [1..n -> RefPieces]} : n \in 0..MaxPieces}

\* the references the whole workflow is run on
MainRefs == {Https \o LitOpen \o ExampleId, NotAPlaylist}

\* extract_playlist_id is a pure function of the reference: its results on
\* the references of the whole workflow, computed once
MainResolutions == {[ref |-> u, res |-> extract_playlist_id(u)] : u \in MainRefs}

\* ------------------------------------------------------------------------
\* The remote playlist
\* ------------------------------------------------------------------------

\* A playlist entry as the page listing returns it: item['track'] may be
\* missing (has_track = FALSE), and a local file has a track whose id is None.
\* A local file's URI is in the service's spotify:local namespace, so it is
\* never the URI of a track that has an id.  A remote call that fails has
\* no effect on the playlist.
TrackUri(k) == <<"spotify", "track", k>>
LocalUri(k) == <<"spotify", "local", k>>
TrackItem(k) == [has_track |-> TRUE, id |-> <<"id", k>>, uri |-> TrackUri(k)]
LocalItem(k) == [has_track |-> TRUE, id |-> None, uri |-> LocalUri(k)]
NoTrackItem == [has_track |-> FALSE, id |-> None, uri |-> None]

\* The kinds of entry a seed is made of: "A" is one fixed track (so it repeats
\* wherever it occurs), "U" is a track unique to its position, "L" is a local
\* file unique to its position, "N" is an entry with no track object.
Kinds == {"A", "U", "L", "N"}

EntryAt(kind, pos) ==
    CASE kind = "A" -> TrackItem(0)
      [] kind = "U" -> TrackItem(pos)
      [] kind = "L" -> LocalItem(pos)
      [] kind = "N" -> NoTrackItem

Seeds(maxlen) == UNION {[1..n -> Kinds] : n \in 1..maxlen}

\* the playlist of n entries that repeats the seed's kinds in a cycle
Cycle(seed, n) ==
    [pos \in 1..n |-> EntryAt(seed[((pos - 1) % Len(seed)) + 1], pos)]

\* the lengths of the long playlists: at and just past a multiple of the
\* batch size, and half a batch past the last multiple
LongLengths ==
    {k * BatchSize + d : k \in 1..MaxBatches, d \in {0, 1}}
    \cup {MaxBatches * BatchSize + (BatchSize \div 2)}

\* the playlists a run starts from: every short playlist, and the long ones
\* that repeat a short cycle of kinds
PlaylistInputs ==
    {Cycle(seed, n) : seed \in Seeds(MaxSeed), n \in 0..MaxSeed}
    \cup {Cycle(seed, n) : seed \in Seeds(MaxCycle), n \in LongLengths}

\* page sizes (the service's limit parameter) the listing is served in
PageSizes == {1, 2, 3, 50, 100}

\* number of pages a playlist of n entries is served in; an empty playlist
\* is served as one empty page
PageCount(n, lim) == IF n = 0 THEN 1 ELSE (n + lim - 1) \div lim

\* the service's page of the listing that starts after `offset` entries:
\* its items, and the offset of the next page (-1 for Python's None); a
\* page is a dict with keys, so it is truthy even when it has no items
PageAt(pl, offset, lim) ==
    [items  |-> SubSeq(pl, offset + 1, Min({offset + lim, Len(pl)})),
     next   |-> IF offset + lim < Len(pl) THEN offset + lim ELSE -1,
     truthy |-> TRUE]

\* a mutant of RemoveAllOccurrences: the call empties the playlist
RemoveAllOccurrencesClear(pl, batch) == <<>>

\* the service's remove-all-occurrences call: every entry whose URI is in
\* the batch goes, wherever it is
RemoveAllOccurrences(pl, batch) ==
    SelectSeq(pl, LAMBDA it : it.uri \notin Range(batch))

\* the entry the service creates for a URI
ItemOfUri(u) ==
    [has_track |-> TRUE,
     id |-> IF u[2] = "track" THEN <<"id", u[3]>> ELSE None,
     uri |-> u]

\* the service's add-items call: one new entry per URI, appended in order
AddItems(pl, batch) ==
    pl \o [k \in 1..Len(batch) |-> ItemOfUri(batch[k])]

\* ------------------------------------------------------------------------
\* State
\* ------------------------------------------------------------------------

VARIABLES
    playlist_url,  \* the argument of refresh_playlist
    pc,            \* where refresh_playlist is
    playlist_id,   \* local of refresh_playlist
    playlist,      \* the remote playlist's entries, in order
    original,      \* the remote playlist as it was when the run began
    limit,         \* the page size the service serves
    results,       \* local of get_playlist_tracks: the current page
    tracks,        \* local of get_playlist_tracks / refresh_playlist
    track_uris,    \* local of refresh_playlist
    i,             \* the loop variable of the batch loops
    ret,           \* what refresh_playlist returned ("True", "False"), "none"
                   \* until it returns
    calls,         \* every remote call issued so far in this run, in order
    failed,        \* the step whose error was raised, "none" if none was
    history,       \* the playlist as it was when each earlier run began
    added          \* the entries another actor has appended during this run

vars == <<playlist_url, pc, playlist_id, playlist, original, limit, results,
          tracks, track_uris, i, ret, calls, failed, history, added>>

\* what a call of the client returns: a value, a falsy value (None or {},
\* which the client gives for a response without a body it can decode) or
\* nothing because it raises
Outcomes == {"value", "falsy", "raise"}

\* a falsy result of a page call: None or {}, no items and no next page
NoPage == [items |-> <<>>, next |-> -1, truthy |-> FALSE]

InitLocals ==
    /\ pc = "Idle"
    /\ playlist_id = None
    /\ results = NoPage
    /\ tracks = <<>>
    /\ track_uris = <<>>
    /\ i = 0
    /\ ret = "none"
    /\ calls = <<>>
    /\ failed = "none"
    /\ history = <<>>
    /\ added = <<>>

Init ==
    /\ playlist_url \in MainRefs
    /\ playlist \in PlaylistInputs
    /\ original = playlist
    /\ limit \in {p \in PageSizes : PageCount(Len(playlist), p) <= MaxPages}
    /\ InitLocals

\* ------------------------------------------------------------------------
\* refresh_playlist, step by step
\* ------------------------------------------------------------------------

\* a mutant of ExceptHandler: the handler lets the error escape
ExceptHandlerReraise(step) ==
    /\ pc' = "Raised"
    /\ ret' = "none"
    /\ failed' = step

\* a mutant of ExceptHandler: the error is swallowed where it arose and the
\* step is tried again
ExceptHandlerRetry(step) ==
    /\ failed' = step
    /\ UNCHANGED <<pc, ret>>

\* "except Exception as e: ... return False": the step that raised is
\* recorded, the call returns False
ExceptHandler(step) ==
    /\ pc' = "Failed"
    /\ ret' = "False"
    /\ failed' = step

Call(op, arg, ok) == [op |-> op, arg |-> arg, ok |-> ok]

\* playlist_id = self.extract_playlist_id(playlist_url)
Resolve ==
    /\ pc = "Idle"
    /\ LET r == IF playlist_url \in MainRefs
                THEN (CHOOSE e \in MainResolutions : e.ref = playlist_url).res
                ELSE extract_playlist_id(playlist_url)
       IN  IF r.ok
           THEN /\ playlist_id' = r.id
                /\ pc' = "Resolved"
                /\ UNCHANGED <<ret, failed>>
           ELSE /\ ExceptHandler("resolve")
                /\ UNCHANGED playlist_id
    /\ UNCHANGED <<history, added>>
    /\ UNCHANGED <<playlist_url, playlist, original, limit, results, tracks,
                   track_uris, i, calls>>

\* playlist_info = self.sp.playlist(playlist_id), and the print that reads
\* playlist_info['name']: on a falsy playlist_info the subscript raises
FetchMetadata ==
    /\ pc = "Resolved"
    /\ \E out \in Outcomes :
         /\ calls' = Append(calls, Call("playlist", None, out # "raise"))
         /\ IF out = "value"
            THEN pc' = "MetadataFetched" /\ UNCHANGED <<ret, failed>>
            ELSE ExceptHandler("metadata")
    /\ UNCHANGED <<history, added>>
    /\ UNCHANGED <<playlist_url, playlist_id, playlist, original, limit,
                   results, tracks, track_uris, i>>

\* get_playlist_tracks: tracks = []; results = self.sp.playlist_tracks(id)
FetchFirstPage ==
    /\ pc = "MetadataFetched"
    /\ \E out \in Outcomes :
         /\ calls' = Append(calls, Call("playlist_tracks", <<0>>, out # "raise"))
         /\ IF out = "raise"
            THEN /\ ExceptHandler("page")
                 /\ UNCHANGED results
            ELSE /\ results' = IF out = "value" THEN PageAt(playlist, 0, limit)
                                                ELSE NoPage
                 /\ pc' = "Enumerating"
                 /\ UNCHANGED <<ret, failed>>
    /\ tracks' = <<>>
    /\ UNCHANGED <<history, added>>
    /\ UNCHANGED <<playlist_url, playlist_id, playlist, original, limit,
                   track_uris, i>>

\* a mutant of Eligible: entries are not filtered
EligibleAll(it) == TRUE

\* "if item['track'] and item['track']['id']": the entry has a track object
\* and the track has an id
Eligible(it) == it.has_track /\ it.id # None

\* the dict appended for an eligible entry (name and artists are carried for
\* display only and are left out)
TrackOf(it) == [id |-> it.id, uri |-> it.uri]

\* the tracks one page contributes, in page order
PageTracks(items) ==
    LET kept == SelectSeq(items, Eligible)
    IN  [k \in 1..Len(kept) |-> TrackOf(kept[k])]

\* "if results['next']": the page names a page after it
HasNext(page) == page.next # -1

\* "while results:": the loop goes on while the last call's result is truthy
WhileResults(page) == page.truthy

\* one test of "while results" and, when it passes, one iteration: the
\* page's eligible entries are appended, then the next page is fetched or
\* the loop breaks; when the test fails or the loop breaks,
\* get_playlist_tracks returns the tracks it has
EnumeratePage ==
    /\ pc = "Enumerating"
    /\ IF ~WhileResults(results)
       THEN /\ pc' = "Enumerated"
            /\ UNCHANGED <<tracks, results, calls, ret, failed>>
       ELSE /\ tracks' = tracks \o PageTracks(results.items)
            /\ IF HasNext(results)
               THEN \E out \in Outcomes :
                      /\ calls' = Append(calls, Call("next", <<results.next>>,
                                                     out # "raise"))
                      /\ IF out = "raise"
                         THEN /\ ExceptHandler("page")
                              /\ UNCHANGED results
                         ELSE /\ results' =
                                   IF out = "value"
                                   THEN PageAt(playlist, results.next, limit)
                                   ELSE NoPage
                              /\ UNCHANGED <<pc, ret, failed>>
               ELSE /\ pc' = "Enumerated"
                    /\ UNCHANGED <<results, calls, ret, failed>>
    /\ UNCHANGED <<history, added>>
    /\ UNCHANGED <<playlist_url, playlist_id, playlist, original, limit,
                   track_uris, i>>

\* "if not tracks: ... return False"
EmptyReturn(ts) == ts = <<>>

\* the lines between the enumeration and the first batch loop
CheckTracks ==
    /\ pc = "Enumerated"
    /\ IF EmptyReturn(tracks)
       THEN /\ pc' = "Empty"
            /\ ret' = "False"
            /\ UNCHANGED <<track_uris>>
       ELSE /\ track_uris' = [k \in 1..Len(tracks) |-> tracks[k].uri]
            /\ pc' = "Removing"
            /\ UNCHANGED ret
    /\ i' = 0
    /\ UNCHANGED <<history, added>>
    /\ UNCHANGED <<playlist_url, playlist_id, playlist, original, limit,
                   results, tracks, calls, failed>>

\* Python's s[a:b] for 0 <= a <= b
Slice(s, a, b) == SubSeq(s, a + 1, Min({b, Len(s)}))

\* a mutant of NextIndex: the loop variable does not advance
NextIndexStuck(k) == k

\* a mutant of NextIndex: the loop steps by one more than the batch size
NextIndexSkip(k) == k + BatchSize + 1

\* the step of range(0, len(track_uris), 100)
NextIndex(k) == k + BatchSize

\* a mutant of RemoveBatch: one loop that removes a batch and appends it
\* again at once
RemoveBatchInterleaved ==
    /\ pc = "Removing"
    /\ LET batch == Slice(track_uris, i, i + BatchSize)
       IN  /\ calls' = calls \o <<Call("remove", batch, TRUE),
                                   Call("add", batch, TRUE)>>
           /\ playlist' = AddItems(RemoveAllOccurrences(playlist, batch), batch)
           /\ IF NextIndex(i) < Len(track_uris)
              THEN i' = NextIndex(i) /\ UNCHANGED <<pc, ret>>
              ELSE i' = i /\ pc' = "Done" /\ ret' = "True"
    /\ UNCHANGED <<history, added, failed>>
    /\ UNCHANGED <<playlist_url, playlist_id, original, limit, results,
                   tracks, track_uris>>

\* a mutant of RemoveBatch: the removal loop ends after its first batch
RemoveBatchOnce ==
    /\ pc = "Removing"
    /\ LET batch == Slice(track_uris, i, i + BatchSize)
       IN  \E ok \in BOOLEAN :
             /\ calls' = Append(calls, Call("remove", batch, ok))
             /\ IF ok
                THEN /\ playlist' = RemoveAllOccurrences(playlist, batch)
                     /\ i' = 0
                     /\ pc' = "Reinserting"
                     /\ UNCHANGED <<ret, failed>>
                ELSE /\ ExceptHandler("remove")
                     /\ UNCHANGED <<playlist, i>>
    /\ UNCHANGED <<history, added>>
    /\ UNCHANGED <<playlist_url, playlist_id, original, limit, results,
                   tracks, track_uris>>

\* one iteration of the removal loop; after the last one the insertion
\* loop begins
RemoveBatch ==
    /\ pc = "Removing"
    /\ LET batch == Slice(track_uris, i, i + BatchSize)
       IN  \E ok \in BOOLEAN :
             /\ calls' = Append(calls, Call("remove", batch, ok))
             /\ IF ok
                THEN /\ playlist' = RemoveAllOccurrences(playlist, batch)
                     /\ IF NextIndex(i) < Len(track_uris)
                        THEN i' = NextIndex(i) /\ UNCHANGED pc
                        ELSE i' = 0 /\ pc' = "Reinserting"
                     /\ UNCHANGED <<ret, failed>>
                ELSE /\ ExceptHandler("remove")
                     /\ UNCHANGED <<playlist, i>>
    /\ UNCHANGED <<history, added>>
    /\ UNCHANGED <<playlist_url, playlist_id, original, limit, results,
                   tracks, track_uris>>

\* one iteration of the insertion loop; after the last one the call
\* returns True
AddBatch ==
    /\ pc = "Reinserting"
    /\ LET batch == Slice(track_uris, i, i + BatchSize)
       IN  \E ok \in BOOLEAN :
             /\ calls' = Append(calls, Call("add", batch, ok))
             /\ IF ok
                THEN /\ playlist' = AddItems(playlist, batch)
                     /\ IF NextIndex(i) < Len(track_uris)
                        THEN i' = NextIndex(i) /\ UNCHANGED <<pc, ret>>
                        ELSE i' = i /\ pc' = "Done" /\ ret' = "True"
                     /\ UNCHANGED failed
                ELSE /\ ExceptHandler("add")
                     /\ UNCHANGED <<playlist, i>>
    /\ UNCHANGED <<history, added>>
    /\ UNCHANGED <<playlist_url, playlist_id, original, limit, results,
                   tracks, track_uris>>

Next ==
    \/ Resolve
    \/ FetchMetadata
    \/ FetchFirstPage
    \/ EnumeratePage
    \/ CheckTracks
    \/ RemoveBatch
    \/ AddBatch

Spec == Init /\ [][Next]_vars

\* Every remote call returns, and the program is sequential and blocks on
\* nothing else: a run that can take a step takes one.
SpecFair == Spec /\ WF_vars(Next)

\* ------------------------------------------------------------------------
\* refresh_playlist run again on the playlist a successful run left
\* ------------------------------------------------------------------------

\* main is invoked again with the same reference after a run that returned
\* True: a new call of refresh_playlist begins on the playlist as it is now
Restart ==
    /\ pc = "Done"
    /\ Len(history) + 1 < MaxRuns
    /\ history' = Append(history, original)
    /\ original' = playlist
    /\ pc' = "Idle"
    /\ playlist_id' = None
    /\ results' = NoPage
    /\ tracks' = <<>>
    /\ track_uris' = <<>>
    /\ i' = 0
    /\ ret' = "none"
    /\ calls' = <<>>
    /\ failed' = "none"
    /\ UNCHANGED <<playlist_url, playlist, limit, added>>

\* the runs start from every playlist, served in the largest page size
InitTwice ==
    /\ Init
    /\ playlist_url = Https \o LitOpen \o ExampleId
    /\ limit = Max(PageSizes)

NextTwice ==
    \/ Resolve
    \/ FetchMetadata
    \/ FetchFirstPage
    \/ EnumeratePage
    \/ CheckTracks
    \/ RemoveBatch
    \/ AddBatch
    \/ Restart

SpecTwice == InitTwice /\ [][NextTwice]_vars

\* ------------------------------------------------------------------------
\* refresh_playlist while another actor appends to the same playlist
\* ------------------------------------------------------------------------

\* what the other actor appends: the track that the "A" entries are (in the
\* snapshot when the playlist has one, new otherwise) or a local file
EditorEntries == {TrackItem(0), LocalItem(0)}

\* the playlists the runs with an editor start from: two entries, and one
\* entry more than a batch
EditorPlaylists ==
    {Cycle(seed, n) : seed \in {<<"U">>, <<"A", "U">>, <<"U", "L">>},
                      n \in {2, BatchSize + 1}}

\* the playlist is not locked: between any two steps of the run, from its
\* start to its return, another client of the service may append an entry
ExternalAdd ==
    /\ ~(pc \in {"Done", "Failed", "Empty"})
    /\ Len(added) < MaxEdits
    /\ \E e \in EditorEntries :
         /\ playlist' = Append(playlist, e)
         /\ added' = Append(added, e)
    /\ UNCHANGED <<playlist_url, pc, playlist_id, original, limit, results,
                   tracks, track_uris, i, ret, calls, failed, history>>

InitEditor ==
    /\ playlist_url = Https \o LitOpen \o ExampleId
    /\ playlist \in EditorPlaylists
    /\ original = playlist
    /\ limit \in {p \in {Min(PageSizes), Max(PageSizes)} :
                    PageCount(Len(playlist), p) <= MaxPages}
    /\ InitLocals

NextEditor ==
    \/ Resolve
    \/ FetchMetadata
    \/ FetchFirstPage
    \/ EnumeratePage
    \/ CheckTracks
    \/ RemoveBatch
    \/ AddBatch
    \/ ExternalAdd

SpecEditor == InitEditor /\ [][NextEditor]_vars

\* ------------------------------------------------------------------------
\* The resolver alone, over every reference string of RefInputs
\* ------------------------------------------------------------------------

InitResolve ==
    /\ playlist_url \in RefInputs
    /\ playlist = <<>>
    /\ original = <<>>
    /\ limit = 1
    /\ InitLocals

NextResolve == Resolve

SpecResolve == InitResolve /\ [][NextResolve]_vars

\* ------------------------------------------------------------------------
\* What the properties are stated in
\* ------------------------------------------------------------------------

\* an entry with a track object and a stable identifier
HasStableId(it) == it.has_track /\ it.id # <<>>

\* the URIs of the entries of pl that have a stable identifier, in order
EligibleUris(pl) ==
    LET kept == SelectSeq(pl, HasStableId)
    IN  [k \in 1..Len(kept) |-> kept[k].uri]

\* the URIs that occur in pl
UrisOf(pl) == {pl[k].uri : k \in {m \in 1..Len(pl) : pl[m].has_track}}

\* how often URI u occurs in pl
UriCount(pl, u) == Cardinality({k \in 1..Len(pl) : pl[k].uri = u})

\* p and q hold the same multiset of URIs
SameUriBag(p, q) ==
    \A u \in UrisOf(p) \cup UrisOf(q) : UriCount(p, u) = UriCount(q, u)

IsMutation(c) == c.op \in {"remove", "add"}
IsFetch(c) == c.op \in {"playlist", "playlist_tracks", "next"}
IsPageFetch(c) == c.op \in {"playlist_tracks", "next"}
IsRemove(c) == c.op = "remove"
IsAdd(c) == c.op = "add"

\* the batches passed to the removal calls so far, and to the append calls
RemoveBatches == [k \in 1..Len(SelectSeq(calls, IsRemove)) |->
                     SelectSeq(calls, IsRemove)[k].arg]
AddBatches == [k \in 1..Len(SelectSeq(calls, IsAdd)) |->
                  SelectSeq(calls, IsAdd)[k].arg]

\* the first n elements of s
Prefix(s, n) == SubSeq(s, 1, n)

\* the entries the service creates for a list of URIs
EntriesFor(uris) ==
    [k \in 1..Len(uris) |->
        [has_track |-> TRUE, id |-> <<"id", uris[k][3]>>, uri |-> uris[k]]]

\* pl without the entries whose URI is among uris
Without(pl, uris) ==
    SelectSeq(pl, LAMBDA it : \A k \in 1..Len(uris) : it.uri # uris[k])

Returned == pc \in {"Done", "Failed", "Empty"}

\* ------------------------------------------------------------------------
\* C1
\* ------------------------------------------------------------------------

\* C1: when every removal call and every append call has succeeded (the run
\* is Done), the playlist holds the same multiset of URIs as before the run.
C1_MultisetPreserved ==
    pc = "Done" => SameUriBag(playlist, original)

\* ------------------------------------------------------------------------
\* C2
\* ------------------------------------------------------------------------

\* C2: a failed removal or append call is the last call ever issued, the run
\* returns False, the failed call carried batch k of its pass, and the
\* playlist holds exactly the effect of batches 0..k-1 of that pass (on top
\* of the whole removal pass when the append pass failed).
C2_FailedBatchStops ==
    \A n \in 1..Len(calls) :
      (IsMutation(calls[n]) /\ ~calls[n].ok) =>
        LET k == Len(SelectSeq(Prefix(calls, n - 1),
                               LAMBDA c : c.op = calls[n].op))
            done == Prefix(track_uris, k * BatchSize)
        IN  /\ n = Len(calls)
            /\ pc = "Failed"
            /\ ret = "False"
            /\ calls[n].arg = SubSeq(track_uris, k * BatchSize + 1,
                                     Min({(k + 1) * BatchSize, Len(track_uris)}))
            /\ calls[n].op = "remove" =>
                 /\ playlist = Without(original, done)
                 /\ AddBatches = <<>>
            /\ calls[n].op = "add" =>
                 playlist = Without(original, track_uris) \o EntriesFor(done)

\* an append call failed after at least one append batch had been applied
C2_Witness ==
    /\ failed = "add"
    /\ Len(AddBatches) >= 2
    /\ playlist # original

\* ------------------------------------------------------------------------
\* C3
\* ------------------------------------------------------------------------

\* C3: with zero eligible tracks the run issues no removal and no append
\* call and returns a result that is not the failure result.
C3_EmptyIsNotFailure ==
    pc = "Empty" =>
      /\ SelectSeq(calls, IsMutation) = <<>>
      /\ ret # "False"

\* ------------------------------------------------------------------------
\* C4
\* ------------------------------------------------------------------------

\* C4: a removal or append call is only issued after the metadata fetch and
\* the fetch of every page have succeeded, and then the list the batches are
\* cut from is the complete enumeration; a failed metadata or page fetch
\* returns False with the playlist as it was and no mutation call issued.
C4_NoMutationBeforeFullFetch ==
    /\ failed \in {"metadata", "page"} =>
         /\ ret = "False"
         /\ playlist = original
         /\ SelectSeq(calls, IsMutation) = <<>>
    /\ \A n \in 1..Len(calls) :
         IsMutation(calls[n]) =>
           LET fetches == SelectSeq(Prefix(calls, n - 1), IsFetch)
           IN  /\ \A m \in 1..Len(fetches) : fetches[m].ok
               /\ fetches[1].op = "playlist"
               /\ Len(SelectSeq(fetches, IsPageFetch))
                    = PageCount(Len(original), limit)
               /\ track_uris = EligibleUris(original)
               /\ \A u \in Range(calls[n].arg) : u \in Range(track_uris)

\* ------------------------------------------------------------------------
\* C5
\* ------------------------------------------------------------------------

\* C5: once get_playlist_tracks has returned, tracks holds the playlist's
\* eligible entries, one per occurrence, in playlist order, and each page was
\* fetched exactly once: page k was fetched by the k-th page call.
C5_EnumerationComplete ==
    pc \in {"Enumerated", "Empty", "Removing", "Reinserting", "Done"} =>
      LET pages == SelectSeq(calls, IsPageFetch)
      IN  /\ [k \in 1..Len(tracks) |-> tracks[k].uri] = EligibleUris(original)
          /\ \A k \in 1..Len(tracks) : tracks[k].id = <<"id", tracks[k].uri[3]>>
          /\ Len(pages) = PageCount(Len(original), limit)
          /\ \A k \in 1..Len(pages) : pages[k].arg = <<(k - 1) * limit>>

\* ------------------------------------------------------------------------
\* C6
\* ------------------------------------------------------------------------

\* C6: an entry without a track object or without a stable identifier is
\* never in the enumerated result, its URI is never in a removal or append
\* batch, and no run fails for any reason other than a failed resolution, a
\* remote call that raised or a metadata call that returned no metadata.
C6_IneligibleExcluded ==
    LET skipped == {original[k].uri :
                      k \in {m \in 1..Len(original) : ~HasStableId(original[m])}}
    IN  /\ \A k \in 1..Len(tracks) :
             tracks[k].id # <<>> /\ tracks[k].uri \notin skipped
        /\ \A n \in 1..Len(calls) :
             IsMutation(calls[n]) =>
               \A u \in Range(calls[n].arg) : u # <<>> /\ u \notin skipped
        /\ failed # "none" =>
             \/ failed = "resolve"
             \/ (calls # <<>> /\ ~calls[Len(calls)].ok)
             \/ (failed = "metadata" /\ Len(calls) = 1)

\* a run that succeeded on a playlist with a local file, an entry without a
\* track object, and an eligible track
C6_Witness ==
    /\ pc = "Done"
    /\ \E k \in 1..Len(original) :
         original[k].has_track /\ original[k].id = <<>>
    /\ \E k \in 1..Len(original) : ~original[k].has_track
    /\ Len(playlist) = Len(original)

\* ------------------------------------------------------------------------
\* C7
\* ------------------------------------------------------------------------

\* C7: every batch holds between 1 and 100 URIs; the removal batches, in
\* call order, are consecutive pieces of the snapshot and, once the removal
\* pass is over, there are ceil(M/100) of them and together they are the
\* snapshot; the k-th append batch is the k-th removal batch, and a run that
\* is Done has issued as many append calls as removal calls.
C7_BatchPartition ==
    LET M == Len(track_uris)
    IN  /\ \A n \in 1..Len(calls) :
             IsMutation(calls[n]) =>
               Len(calls[n].arg) >= 1 /\ Len(calls[n].arg) <= 100
        /\ Concat(RemoveBatches) = Prefix(track_uris, Len(Concat(RemoveBatches)))
        /\ pc \in {"Reinserting", "Done"} \/ failed = "add" =>
             /\ Len(RemoveBatches) = (M + 99) \div 100
             /\ Concat(RemoveBatches) = track_uris
        /\ Len(AddBatches) <= Len(RemoveBatches)
        /\ \A k \in 1..Len(AddBatches) : AddBatches[k] = RemoveBatches[k]
        /\ pc = "Done" => AddBatches = RemoveBatches

\* a finished run over 250 URIs: three batches a pass, the last of 50
C7_Witness ==
    /\ pc = "Done"
    /\ Len(track_uris) = 250
    /\ Len(AddBatches) = 3
    /\ Len(AddBatches[3]) = 50

\* ------------------------------------------------------------------------
\* C10
\* ------------------------------------------------------------------------

\* C10: no error escapes refresh_playlist: once a step has raised the call
\* has returned False, and the call returns True only when no step raised.
C10_ErrorsBecomeFalse ==
    /\ pc \in {"Idle", "Resolved", "MetadataFetched", "Enumerating",
               "Enumerated", "Removing", "Reinserting",
               "Done", "Failed", "Empty"}
    /\ Returned <=> ret \in {"True", "False"}
    /\ (failed # "none" \/ \E n \in 1..Len(calls) : ~calls[n].ok) =>
         pc = "Failed" /\ ret = "False"
    /\ ret = "True" =>
         /\ pc = "Done"
         /\ failed = "none"
         /\ \A n \in 1..Len(calls) : calls[n].ok

\* a removal call failed and the call returned False
C10_Witness ==
    /\ failed = "remove"
    /\ ret = "False"
    /\ ~calls[Len(calls)].ok

\* ------------------------------------------------------------------------
\* C8
\* ------------------------------------------------------------------------

\* the characters an identifier is made of
IdChar == Lower \cup Upper \cup Digit

\* s is, as a whole, one of the three reference forms: the URI form, or a
\* web form with or without the scheme, followed by an identifier and
\* nothing else
IsReference(s) ==
    \E head \in {LitUri, LitOpen, LitWeb, Https \o LitOpen, Https \o LitWeb} :
      /\ Len(s) > Len(head)
      /\ SubSeq(s, 1, Len(head)) = head
      /\ \A m \in (Len(head) + 1)..Len(s) : s[m] \in IdChar

\* s holds, at position p, the text lit followed by an identifier character
FragmentAt(lit, s, p) ==
    /\ p + Len(lit) <= Len(s)
    /\ \A m \in 1..Len(lit) : s[p + m - 1] = lit[m]
    /\ s[p + Len(lit)] \in IdChar

\* s holds one of the three pattern texts somewhere, followed by an
\* identifier character
HasFragment(s) ==
    \E lit \in {LitUri, LitOpen, LitWeb} :
      \E p \in 1..Len(s) : FragmentAt(lit, s, p)

\* C8 as claimed: a string that is not, as a whole, one of the three
\* reference forms never resolves.
C8_NeverPartialMatch ==
    (pc # "Idle" /\ ~IsReference(playlist_url)) => failed = "resolve"

\* C8 as amended: resolution fails, with the call returning False, exactly
\* when none of the three pattern texts followed by an identifier character
\* occurs anywhere in the string; otherwise it yields the longest run of
\* identifier characters that follows such an occurrence.
C8_FailsIffNoFragment ==
    pc # "Idle" =>
      /\ (pc = "Failed" /\ failed = "resolve" /\ ret = "False")
           <=> ~HasFragment(playlist_url)
      /\ HasFragment(playlist_url) =>
           /\ pc = "Resolved"
           /\ playlist_id # <<>>
           /\ \A m \in 1..Len(playlist_id) : playlist_id[m] \in IdChar
           /\ \E lit \in {LitUri, LitOpen, LitWeb} :
                \E p \in 1..Len(playlist_url) :
                  LET from == p + Len(lit)
                      to == from + Len(playlist_id) - 1
                  IN  /\ FragmentAt(lit, playlist_url, p)
                      /\ to <= Len(playlist_url)
                      /\ SubSeq(playlist_url, from, to) = playlist_id
                      /\ to < Len(playlist_url) =>
                           playlist_url[to + 1] \notin IdChar

\* a pattern text with no identifier after it does not resolve
C8_Witness ==
    /\ pc = "Failed"
    /\ failed = "resolve"
    /\ playlist_url = Https \o LitOpen \o <<"?">>

\* ------------------------------------------------------------------------
\* C9
\* ------------------------------------------------------------------------

IdPieces == {ExampleId, <<"a">>}

\* identifiers of at most MaxPieces - 1 pieces
IdInputs ==
    UNION {{Concat(ps) : ps \in [1..n -> IdPieces]} : n \in 1..(MaxPieces - 1)}

\* the reference forms for identifier X: the URI form, and the two web forms
\* with or without the scheme and with or without a query mark after X
RefForms(X) ==
    {LitUri \o X}
    \cup {pre \o lit \o X \o q : pre \in {<<>>, Https},
                                  lit \in {LitOpen, LitWeb},
                                  q \in {<<>>, <<"?">>}}

WellFormedRefs ==
    UNION {{[ref |-> r, id |-> X] : r \in RefForms(X)} : X \in IdInputs}

\* the three patterns in each of the six orders
PatternOrders ==
    {<<patterns[a], patterns[b], patterns[c]>> :
        a \in 1..3, b \in 1..3, c \in 1..3} \ 
    {o \in {<<patterns[a], patterns[b], patterns[c]>> :
              a \in 1..3, b \in 1..3, c \in 1..3} :
        o[1] = o[2] \/ o[1] = o[3] \/ o[2] = o[3]}

\* C9: every reference form for identifier X resolves to exactly X, and
\* trying the three patterns in any other order gives X as well.
C9_GrammarInvariance ==
    pc # "Idle" =>
      \A w \in WellFormedRefs :
        w.ref = playlist_url =>
          /\ pc = "Resolved"
          /\ playlist_id = w.id
          /\ \A order \in PatternOrders :
               ExtractWith(order, playlist_url) = [ok |-> TRUE, id |-> w.id]

\* the link of the spec's example resolved to its identifier
C9_Witness ==
    /\ pc = "Resolved"
    /\ playlist_url = Https \o LitOpen \o ExampleId
    /\ playlist_id = ExampleId

\* ------------------------------------------------------------------------
\* C11
\* ------------------------------------------------------------------------

\* C11: when a second run in succession has succeeded too, the playlist
\* holds the same multiset of URIs as after the first run and as before it.
C11_TwiceSameBag ==
    (pc = "Done" /\ history # <<>>) =>
      /\ SameUriBag(playlist, original)
      /\ \A r \in 1..Len(history) : SameUriBag(playlist, history[r])

\* ------------------------------------------------------------------------
\* C12
\* ------------------------------------------------------------------------

\* the place of a workflow state in the order of the workflow; the page loop
\* (Enumerating) lies between MetadataFetched and Enumerated, and the early
\* return on an empty playlist (Empty) is an end like Done and Failed
Rank(p) ==
    CASE p = "Idle" -> 0
      [] p = "Resolved" -> 1
      [] p = "MetadataFetched" -> 2
      [] p = "Enumerating" -> 3
      [] p = "Enumerated" -> 4
      [] p = "Removing" -> 5
      [] p = "Reinserting" -> 6
      [] p \in {"Done", "Failed", "Empty"} -> 7

\* the place of a remote call in the order of the workflow
Phase(c) ==
    CASE c.op = "playlist" -> 1
      [] IsPageFetch(c) -> 2
      [] c.op = "remove" -> 3
      [] c.op = "add" -> 4

\* the calls issued so far are in workflow order and fit the state reached
CallsInOrder ==
    /\ \A m, n \in 1..Len(calls) : m < n => Phase(calls[m]) <= Phase(calls[n])
    /\ \A n \in 1..Len(calls) : calls[n].op = "playlist" => n = 1
    /\ Rank(pc) <= 4 => SelectSeq(calls, IsMutation) = <<>>
    /\ pc = "Removing" => AddBatches = <<>>
    /\ pc = "Done" =>
         /\ ret = "True"
         /\ \A n \in 1..Len(calls) : calls[n].ok
         /\ Len(track_uris) >= 1
         /\ Len(RemoveBatches) = (Len(track_uris) + 99) \div 100
         /\ Len(AddBatches) = (Len(track_uris) + 99) \div 100

\* a step keeps the workflow state, or moves it to the next state of the
\* order, or ends the run
StepInOrder ==
    \/ pc' = pc
    \/ Rank(pc') = Rank(pc) + 1 /\ Rank(pc') < 7
    \/ pc' = "Failed" /\ Rank(pc) < 7
    \/ pc' = "Empty" /\ pc = "Enumerated"
    \/ pc' = "Done" /\ pc = "Reinserting"

\* C12: the workflow states are passed in their order and none is entered
\* again; the metadata fetch precedes the page fetches, these precede the
\* removal calls, these precede the append calls; Done is reached only from
\* Reinserting, after every batch of both passes was issued and succeeded.
C12_StatesInOrder == [](CallsInOrder) /\ [][StepInOrder]_vars

\* a finished run that fetched several pages and issued several batches
C12_Witness ==
    /\ pc = "Done"
    /\ Len(SelectSeq(calls, IsPageFetch)) >= 2
    /\ Len(RemoveBatches) >= 2
    /\ Len(AddBatches) >= 2

\* ------------------------------------------------------------------------
\* C13
\* ------------------------------------------------------------------------

\* C13: a failed remote call is the last remote call of the run, whatever
\* its kind, and the run has failed; a failed removal is never followed by
\* an append; a reference that does not resolve fails the run before any
\* remote call; a run that failed at the metadata fetch made that call only.
C13_FirstFailureEnds ==
    /\ \A n \in 1..Len(calls) :
         ~calls[n].ok => (n = Len(calls) /\ pc = "Failed" /\ failed # "none")
    /\ failed = "remove" => AddBatches = <<>>
    /\ failed = "resolve" => (calls = <<>> /\ pc = "Failed")
    /\ failed \in {"page", "remove", "add"} =>
         (calls # <<>> /\ ~calls[Len(calls)].ok)
    /\ failed = "metadata" => Len(calls) = 1

\* the second removal batch failed: it is the last call, no append follows
C13_Witness ==
    /\ failed = "remove"
    /\ Len(RemoveBatches) = 2
    /\ ~calls[Len(calls)].ok
    /\ playlist # original

\* ------------------------------------------------------------------------
\* C14
\* ------------------------------------------------------------------------

\* the loops issue no more calls than there are pages and batches, a page
\* is only asked for when the page before it named it, and a page the
\* enumeration ended on named no page after it
LoopsBounded ==
    LET pages == SelectSeq(calls, IsPageFetch)
        batches == (Len(track_uris) + BatchSize - 1) \div BatchSize
    IN  /\ Len(pages) <= PageCount(Len(original), limit)
        /\ \A k \in 1..Len(pages) :
             /\ pages[k].arg = <<(k - 1) * limit>>
             /\ k > 1 => pages[k].arg[1] < Len(original)
        /\ (Rank(pc) >= 4 /\ pc # "Failed" /\ results.truthy) =>
             (results.next = -1 /\ pages[Len(pages)].ok)
        /\ Len(RemoveBatches) <= batches
        /\ Len(AddBatches) <= batches

\* C14: every run ends: it reaches Done, Failed or the early return on an
\* empty playlist; the page loop and the two batch loops issue boundedly
\* many calls and the page loop fetches nothing after the last page.
C14_Terminates == <>Returned /\ [](LoopsBounded)

\* a run that ended after the page loop ran over three pages and each batch
\* loop over three batches
C14_Witness ==
    /\ Returned
    /\ pc = "Done"
    /\ Len(SelectSeq(calls, IsPageFetch)) = 3
    /\ Len(RemoveBatches) = 3
    /\ results.truthy
    /\ results.next = -1

\* ------------------------------------------------------------------------
\* C15
\* ------------------------------------------------------------------------

\* the multiset of the URIs of pl: each URI with the number of entries of pl
\* that carry it
UriBag(pl) ==
    BagOfAll(LAMBDA e : e[2],
             SetToBag({<<k, pl[k].uri>> :
                          k \in {m \in 1..Len(pl) : pl[m].has_track}}))

\* C15: in every state of a run, whether it is still running, succeeded or
\* failed at any batch of either pass, no URI occurs in the playlist more
\* often than it did when the run began.
C15_NeverMoreThanBefore == UriBag(playlist) \sqsubseteq UriBag(original)

\* an append batch failed after an earlier one succeeded, and a URI that
\* occurs in both batches is back in part: fewer times than before
C15_Witness ==
    /\ failed = "add"
    /\ Len(AddBatches) >= 2
    /\ \E u \in UrisOf(playlist) :
         /\ u \in Range(track_uris)
         /\ UriCount(playlist, u) >= 2
         /\ UriCount(playlist, u) < UriCount(original, u)

\* ------------------------------------------------------------------------
\* C16
\* ------------------------------------------------------------------------

\* the entries of pl that the enumeration skips, in order
Skipped(pl) == SelectSeq(pl, LAMBDA it : ~HasStableId(it))

\* C16: when the removal pass has completed and nothing is appended yet, no
\* entry of the playlist has a URI of the snapshot; when the append call
\* for batch k (counted from 0) has failed, the playlist is the skipped
\* entries followed by the URIs of batches 0..k-1 in snapshot order, so
\* for k = 0 none of the eligible tracks is left.
C16_AfterRemovalPass ==
    /\ (pc = "Reinserting" /\ AddBatches = <<>>) =>
          \A m \in 1..Len(playlist) : playlist[m].uri \notin Range(track_uris)
    /\ failed = "add" =>
          LET k == Len(AddBatches) - 1
          IN  /\ playlist = Skipped(original)
                              \o EntriesFor(Prefix(track_uris, k * BatchSize))
              /\ k = 0 => \A m \in 1..Len(playlist) :
                             ~HasStableId(playlist[m])

\* ------------------------------------------------------------------------
\* C17
\* ------------------------------------------------------------------------

\* the URIs of the entries of pl, None for an entry without one
AllUris(pl) == {pl[k].uri : k \in 1..Len(pl)}

\* C17: every removal and append call is passed URIs of the snapshot only,
\* and a URI that is not in the snapshot occurs in the playlist exactly as
\* often as in the original playlist and the other actor's additions
\* together: such an entry is neither removed nor duplicated, wherever the
\* additions fall between the steps of the run.
C17_OutsideSnapshotUntouched ==
    /\ \A k \in 1..Len(calls) :
         IsMutation(calls[k]) => Range(calls[k].arg) \subseteq Range(track_uris)
    /\ \A u \in AllUris(playlist) \cup AllUris(original) \cup AllUris(added) :
         u \notin Range(track_uris) =>
           UriCount(playlist, u) = UriCount(original, u) + UriCount(added, u)

\* a run that succeeded although another actor's entry, whose URI is not in
\* the snapshot, was appended between two append batches
C17_Witness ==
    /\ pc = "Done"
    /\ \E m \in 2..(Len(playlist) - 1) :
         /\ playlist[m] \in Range(added)
         /\ playlist[m].uri \notin Range(track_uris)
         /\ playlist[m - 1].uri \in Range(track_uris)
         /\ playlist[m + 1].uri \in Range(track_uris)

\* ------------------------------------------------------------------------
\* C18
\* ------------------------------------------------------------------------

\* C18: after a run that succeeded, the playlist is the skipped entries in
\* their original order, followed by one entry per eligible entry of the
\* original playlist, in the order of the enumeration.
C18_EligibleAtEndInOrder ==
    pc = "Done" =>
      /\ track_uris = EligibleUris(original)
      /\ playlist = Skipped(original) \o EntriesFor(track_uris)

====
